---- MODULE Spec2Model ----
(***************************************************************************)
(* A model of DeepLearning_Tutorial.ipynb run top to bottom in one kernel. *)
(* The state is the notebook's global namespace (the values the cells      *)
(* bind), the TensorFlow default graph and its sessions, the Keras model   *)
(* bound to `model`, and the position of the run.  Real numbers are        *)
(* fixed-point integers in units of 1/Q, saturating at FMax.               *)
(***************************************************************************)
EXTENDS Integers, Sequences, FiniteSets, TLC

\* ------------------------------------------------------------------ bounds
\* hyperparameters other than the tutorial's are drawn from 1..MaxDim
MaxDim == 2
\* the random generator is drawn from 1..NumSeeds
NumSeeds == 2
\* a drawn gaussian is an integer in -MaxVal..MaxVal, a drawn uniform one of
\* MaxVal+1 levels of [0, 1)
MaxVal == 1
\* resolution of the fixed-point numbers: the value v is the integer v*Q
Q == 1000
\* largest magnitude of a fixed-point number (the number format saturates)
FMax == 46000
\* how many leading images and time steps of a data set the element-wise
\* statements are evaluated on
MaxSample == 2

\* ------------------------------------------------------- program constants
Tut_batch_size == 5
Tut_n_x == 10
Tut_n_h == 100
Tut_n_y == 3
\* an unknown dimension, as in tf.placeholder(tf.float32, (None, n_y))
NoneDim == 0
LearningRateInv == 100
NumTrainSteps == 10
\* a step recorded every other iteration only
LogEvery_2 == 1 + 1
LogEvery == 1
\* the MNIST arrays mnist.load_data() returns: 60000 and 10000 images of 28x28
TrainN == 60000
TestN == 10000
Img == 28
PixelMax == 255

Seeds == 1..NumSeeds
HyperParams ==
    {<<Tut_batch_size, Tut_n_x, Tut_n_h, Tut_n_y>>}
        \cup ((1..MaxDim) \X (1..MaxDim) \X (1..MaxDim) \X (1..MaxDim))

\* ------------------------------------------------------ fixed-point numbers
Clamp(v) == IF v > FMax THEN FMax ELSE IF v < -FMax THEN -FMax ELSE v
\* a / b rounded to the nearest integer (b > 0)
RoundDiv(a, b) == (a + (b \div 2)) \div b
FMul(a, b) == Clamp(RoundDiv(a * b, Q))
\* square root of the fixed-point number v >= 0, rounded down
FSqrt(v) == CHOOSE s \in 0..(2 * Q) : s * s <= v * Q /\ (s + 1) * (s + 1) > v * Q

\* ---------------------------------------------------------------- matrices
\* a matrix is a sequence of rows; its shape is (rows, columns)
Shape(m) == <<Len(m), Len(m[1])>>
\* the matrix m with every row and every entry evaluated (an array holds
\* values, not expressions)
Matrix(m) == [i \in 1..Len(m) |-> m[i] \o <<>>] \o <<>>
Transpose(m) == Matrix([j \in 1..Len(m[1]) |-> [i \in 1..Len(m) |-> m[i][j]]])

RECURSIVE DotSum(_, _, _, _, _, _)
\* the sum of a[i][k] * b[k][j] over k in lo..hi
DotSum(a, b, i, j, lo, hi) ==
    IF lo > hi THEN 0
    ELSE IF lo = hi THEN FMul(a[i][lo], b[lo][j])
    ELSE LET mid == (lo + hi) \div 2
         IN DotSum(a, b, i, j, lo, mid) + DotSum(a, b, i, j, mid + 1, hi)

\* the matrix product a.b, every product and every sum rounded and saturated
MatProd(a, b) ==
    Matrix([i \in 1..Len(a) |-> [j \in 1..Len(b[1]) |-> Clamp(DotSum(a, b, i, j, 1, Len(b)))]])

RECURSIVE SeqSum(_)
SeqSum(s) == IF s = <<>> THEN 0 ELSE Head(s) + SeqSum(Tail(s))
RECURSIVE RowsSum(_)
RowsSum(m) == IF m = <<>> THEN 0 ELSE SeqSum(Head(m)) + RowsSum(Tail(m))
Size(m) == Len(m) * Len(m[1])

\* ------------------------------------------------------- the random arrays
\* np.random with generator state `seed`: entry (i, j) of the draw number salt
Hash(seed, salt, i, j) == (seed * 7 + salt * 13 + i * 31 + j * 17 + seed * i * j) % 97
\* np.random.rand(r, c): uniform on [0, 1)
np_random_rand(seed, salt, r, c) ==
    Matrix([i \in 1..r |-> [j \in 1..c |->
                ((Hash(seed, salt, i, j) % (MaxVal + 1)) * Q) \div (MaxVal + 1)]])
\* np.random.randn(r, c): gaussian
np_random_randn(seed, salt, r, c) ==
    Matrix([i \in 1..r |-> [j \in 1..c |->
                ((Hash(seed, salt, i, j) % (2 * MaxVal + 1)) - MaxVal) * Q]])

\* ------------------------------------------------------------ element-wise
Max(a, b) == IF a >= b THEN a ELSE b
\* shapes broadcast when every pair of dimensions is equal or has a 1
Broadcastable(sa, sb) == \A d \in 1..2 : sa[d] = sb[d] \/ sa[d] = 1 \/ sb[d] = 1
\* entry (i, j) of m stretched along its dimensions of length 1
At(m, i, j) == m[IF Len(m) = 1 THEN 1 ELSE i][IF Len(m[1]) = 1 THEN 1 ELSE j]
\* a - b, element-wise with broadcasting
Sub(a, b) ==
    Matrix([i \in 1..Max(Len(a), Len(b)) |-> [j \in 1..Max(Len(a[1]), Len(b[1])) |->
                Clamp(At(a, i, j) - At(b, i, j))]])
Square(a) == Matrix([i \in 1..Len(a) |-> [j \in 1..Len(a[1]) |-> FMul(a[i][j], a[i][j])]])

\* ------------------------------------------------------------------- NumPy
\* relu with the comparison the wrong way round: x * (x<0.)
relu_neg(x) == Matrix([i \in 1..Len(x) |-> [j \in 1..Len(x[1]) |-> x[i][j] * (IF x[i][j] < 0 THEN 1 ELSE 0)]])
\* def relu(x): return x * (x>0.)     (the mask is 1 where x > 0 and 0 elsewhere)
relu(x) == Matrix([i \in 1..Len(x) |-> [j \in 1..Len(x[1]) |-> x[i][j] * (IF x[i][j] > 0 THEN 1 ELSE 0)]])
np_dot(a, b) == MatProd(a, b)
np_mean(m) == Clamp(RoundDiv(RowsSum(m), Size(m)))
\* W = np.random.randn(r, c) * np.sqrt(2./(r + c))
GlorotScale(r, c) == FSqrt((2 * Q) \div (r + c))
\* the two dimensions of the weight matrix swapped
np_weights_T(seed, salt, r, c) ==
    LET g == GlorotScale(r, c)
        w == np_random_randn(seed, salt, c, r)
    IN Matrix([i \in 1..Len(w) |-> [j \in 1..Len(w[1]) |-> FMul(w[i][j], g)]])
np_weights(seed, salt, r, c) ==
    LET g == GlorotScale(r, c)
        w == np_random_randn(seed, salt, r, c)
    IN Matrix([i \in 1..Len(w) |-> [j \in 1..Len(w[1]) |-> FMul(w[i][j], g)]])

\* -------------------------------------------------------------- TensorFlow
tf_nn_relu(x) == Matrix([i \in 1..Len(x) |-> [j \in 1..Len(x[1]) |-> IF x[i][j] > 0 THEN x[i][j] ELSE 0]])
tf_matmul(a, b) == MatProd(a, b)
\* reduce_sum in the place of reduce_mean
tf_reduce_sum(m) == Clamp(RowsSum(m))
tf_reduce_mean(m) == Clamp(RoundDiv(RowsSum(m), Size(m)))
\* static shape of tf.matmul(a, b); <<>> when the inner dimensions differ
MatMulShape(sa, sb) == IF sa[2] = sb[1] THEN <<sa[1], sb[2]>> ELSE <<>>
\* a fed or given shape fits a declared one: same rank, every dimension equal or None
Compatible(declared, given) ==
    /\ Len(declared) = Len(given)
    /\ \A d \in 1..Len(declared) : declared[d] = NoneDim \/ declared[d] = given[d]

\* the tensors of the graph, evaluated with the variables of one session
TF_h(vars, xv) == tf_nn_relu(tf_matmul(xv, vars.W_h))
TF_y(vars, xv) == tf_matmul(TF_h(vars, xv), vars.W_y)
TF_loss(vars, xv, ytv) == tf_reduce_mean(Square(Sub(ytv, TF_y(vars, xv))))

\* one run of train_op = GradientDescentOptimizer(0.01).minimize(loss): the
\* gradients of loss with respect to W_h and W_y, then W := W - 0.01 * gradient
TF_train(vars, xv, ytv) ==
    LET pre == tf_matmul(xv, vars.W_h)
        hv == tf_nn_relu(pre)
        yv == tf_matmul(hv, vars.W_y)
        d == Sub(ytv, yv)
        n == Size(d)
        dy == Matrix([i \in 1..Len(d) |-> [j \in 1..Len(d[1]) |-> Clamp(RoundDiv((-2) * d[i][j], n))]])
        dW_y == MatProd(Transpose(hv), dy)
        dh == MatProd(dy, Transpose(vars.W_y))
        dpre == Matrix([i \in 1..Len(dh) |-> [j \in 1..Len(dh[1]) |->
                    IF pre[i][j] > 0 THEN dh[i][j] ELSE 0]])
        dW_h == MatProd(Transpose(xv), dpre)
        step_(w, g) == Matrix([i \in 1..Len(w) |-> [j \in 1..Len(w[1]) |->
                    Clamp(w[i][j] - RoundDiv(g[i][j], LearningRateInv))]])
    IN [vars EXCEPT !.W_h = step_(vars.W_h, dW_h), !.W_y = step_(vars.W_y, dW_y)]

\* ------------------------------------------------------------------- Keras
\* a layer; `weights` holds the kernel of the small MLP's layers and is empty
\* for the layers whose weights the notebook never reads element-wise
Layer(kind, units, activation, use_bias, out_shape) ==
    [kind |-> kind, units |-> units, activation |-> activation,
     use_bias |-> use_bias, out_shape |-> out_shape, weights |-> <<>>]
NoModel == [cls |-> "", layers |-> <<>>, input_shape |-> <<>>, epochs |-> 0]
\* the shape with its last dimension replaced
WithLast(shape, u) == [d \in 1..Len(shape) |-> IF d = Len(shape) THEN u ELSE shape[d]]
RECURSIVE Prod(_)
Prod(s) == IF s = <<>> THEN 1 ELSE Head(s) * Prod(Tail(s))
\* output shape of the model so far (its input shape when it has no layer)
OutShape(m) == IF m.layers = <<>> THEN m.input_shape ELSE m.layers[Len(m.layers)].out_shape
\* Sequential.add(layer): the layer's output shape follows from the model's
Dense(m, units, activation, use_bias) ==
    [m EXCEPT !.layers = Append(@, Layer("Dense", units, activation, use_bias,
                                         WithLast(OutShape(m), units)))]
Flatten(m) ==
    [m EXCEPT !.layers = Append(@, Layer("Flatten", 0, "", FALSE,
                                         <<NoneDim, Prod(Tail(OutShape(m)))>>))]
\* an activation argument that is ignored
Activation_linear(name, x) == x
Activation(name, x) ==
    IF name = "relu" THEN Matrix([i \in 1..Len(x) |-> [j \in 1..Len(x[1]) |-> IF x[i][j] > 0 THEN x[i][j] ELSE 0]]) ELSE x
\* Dense.call of a layer without bias: activation(dot(inputs, kernel))
DenseCall(layer, x) == Activation(layer.activation, MatProd(x, layer.weights))
RECURSIVE Predict(_, _)
\* model.predict(X) of a Sequential model of Dense layers
Predict(layers, x) ==
    IF layers = <<>> THEN x ELSE Predict(Tail(layers), DenseCall(Head(layers), x))

\* the other layers of the notebook, by the shape of what they return
Conv2D(m, filters) ==
    LET i == OutShape(m)
    IN [m EXCEPT !.layers = Append(@, Layer("Conv2D", filters, "relu", TRUE,
                                            <<i[1], i[2] - 2, i[3] - 2, filters>>))]
MaxPooling2D(m) ==
    LET i == OutShape(m)
    IN [m EXCEPT !.layers = Append(@, Layer("MaxPooling2D", 0, "", FALSE,
                                            <<i[1], i[2] \div 2, i[3] \div 2, i[4]>>))]
Dropout(m) ==
    [m EXCEPT !.layers = Append(@, Layer("Dropout", 0, "", FALSE, OutShape(m)))]
\* keras.models.Model(inputs=Input(shape), outputs=GRU(units)(inputs))
GRUModel(shape, units) ==
    [NoModel EXCEPT !.cls = "Model", !.input_shape = <<NoneDim>> \o shape,
                    !.layers = << Layer("InputLayer", 0, "", FALSE, <<NoneDim>> \o shape),
                                  Layer("GRU", units, "tanh", TRUE, <<NoneDim, units>>) >>]
Sequential == [NoModel EXCEPT !.cls = "Sequential"]
\* input_dim= / input_shape= of a model's first layer: the batch dimension is None
WithInput(m, shape) == [m EXCEPT !.input_shape = <<NoneDim>> \o shape]
\* layer.set_weights([w]) of layer k (1-based) of the model
SetWeights(m, k, w) == [m EXCEPT !.layers[k].weights = w]
\* the shape of the kernel of Dense layer k: (its input's last dimension, units)
KernelShape(m, k) ==
    LET inp == IF k = 1 THEN m.input_shape ELSE m.layers[k - 1].out_shape
    IN <<inp[Len(inp)], m.layers[k].units>>
\* how many arrays layer.get_weights() returns
NumWeights(layer) ==
    IF layer.kind \in {"Dense", "Conv2D"} THEN (IF layer.use_bias THEN 2 ELSE 1)
    ELSE IF layer.kind = "GRU" THEN 3
    ELSE 0
\* model.fit / model.evaluate / a backend function accept the arrays: the input
\* fits the model's input shape and inputs and targets have as many samples
Accepts(m, xshape) == Compatible(m.input_shape, xshape)
FitError(m, xshape, yshape) ==
    IF ~Accepts(m, xshape) THEN "ValueError"
    ELSE IF xshape[1] # yshape[1] THEN "ValueError"
    ELSE ""

\* ------------------------------------------------------------ the data set
\* An MNIST array is its buffer (which array of mnist.load_data() the elements
\* come from, in row-major order), its dtype and its shape; reshaping keeps
\* the buffer and the order of the elements.
Array(base, seed, dtype, shape) == [base |-> base, seed |-> seed, dtype |-> dtype, shape |-> shape]
\* pixel k (row-major, from 0) of a buffer as loaded: an integer in 0..255
RawPixel(base, seed, k) ==
    (seed * 11 + k * 37 + (k \div Img) * 5 + (IF base = "x_train" THEN 3 ELSE 101)) % (PixelMax + 1)
\* x / 255.0
Div255(arr) == [arr EXCEPT !.dtype = "float64"]
Value(arr, k) ==
    IF arr.dtype = "uint8" THEN RawPixel(arr.base, arr.seed, k)
    ELSE RoundDiv(RawPixel(arr.base, arr.seed, k) * Q, PixelMax)
RECURSIVE FlatIndex(_, _)
\* row-major position of the element at 0-based index idx of an array of that shape
FlatIndex(shape, idx) ==
    IF Len(idx) = 1 THEN idx[1]
    ELSE FlatIndex(SubSeq(shape, 1, Len(shape) - 1), SubSeq(idx, 1, Len(idx) - 1))
            * shape[Len(shape)] + idx[Len(idx)]
Elem(arr, idx) == Value(arr, FlatIndex(arr.shape, idx))
\* product of the dimensions of a shape given to reshape, the -1 left out
RECURSIVE Known(_)
Known(s) == IF s = <<>> THEN 1 ELSE (IF Head(s) = -1 THEN 1 ELSE Head(s)) * Known(Tail(s))
Reshapable(arr, s) == Prod(arr.shape) % Known(s) = 0
\* arr.reshape(s): the -1 becomes whatever keeps the number of elements
Reshape(arr, s) ==
    [arr EXCEPT !.shape = [d \in 1..Len(s) |->
                              IF s[d] = -1 THEN Prod(arr.shape) \div Known(s) ELSE s[d]]]
\* x[..., np.newaxis]
NewAxis(shape) == shape \o <<1>>

\* ------------------------------------------------- names read and bound
\* A cell is a sequence of statements; a statement is <<the global names it
\* reads, the global names it binds>>.  Builtins (print, range, list) are not
\* globals of the notebook.
Stmts_imports ==
    << <<{}, {"np"}>>, <<{}, {"tf"}>>, <<{}, {"plt"}>> >>
Stmts_numpy_way ==
    << <<{}, {"batch_size"}>>, <<{}, {"n_x"}>>, <<{}, {"n_h"}>>, <<{}, {"n_y"}>>,
       <<{"np", "batch_size", "n_x"}, {"x_np"}>>,
       <<{}, {"relu"}>>,
       <<{"np", "n_x", "n_h"}, {"W_h_np"}>>,
       <<{"np", "n_h", "n_y"}, {"W_y_np"}>>,
       <<{"relu", "np", "x_np", "W_h_np"}, {"h_np"}>>,
       <<{"np", "h_np", "W_y_np"}, {"y_np"}>>,
       <<{"np", "batch_size", "n_y"}, {"y_target_np"}>>,
       <<{"np", "y_target_np", "y_np"}, {"loss_np"}>> >>
Stmts_tf_build ==
    << <<{"tf"}, {}>>,
       <<{"tf", "batch_size", "n_x"}, {"x"}>>,
       <<{"tf", "n_x", "n_h", "W_h_np"}, {"W_h"}>>,
       <<{"tf", "n_h", "n_y", "W_y_np"}, {"W_y"}>>,
       <<{"tf", "x", "W_h"}, {"h"}>>,
       <<{"tf", "h", "W_y"}, {"y"}>>,
       <<{"y"}, {}>> >>
Stmts_sess_open == << <<{"tf"}, {"sess"}>> >>
Stmts_sess_init == << <<{"sess", "tf"}, {}>> >>
Stmts_sess_run_y == << <<{"sess", "y", "x", "x_np"}, {"y_val"}>> >>
Stmts_sess_close == << <<{"sess"}, {}>> >>
Stmts_tf_plot == << <<{"y_val"}, {}>>, <<{"plt", "y_val", "y_np"}, {}>> >>
Stmts_keras_way ==
    << <<{}, {"keras"}>>, <<{}, {"Dense"}>>, <<{}, {"Sequential"}>>,
       <<{"keras"}, {}>>,
       <<{"Sequential"}, {"model"}>>,
       <<{"model", "Dense", "n_h", "n_x"}, {}>>,
       <<{"model", "Dense", "n_y"}, {}>>,
       <<{"model", "W_h_np"}, {}>>,
       <<{"model", "W_y_np"}, {}>>,
       <<{"model"}, {}>> >>

\* the second Tensorflow cell also calls keras.backend.clear_session()
Stmts_tf_build2 == <<Stmts_tf_build[1], <<{"keras"}, {}>>>> \o Tail(Stmts_tf_build)
Stmts_loss_def ==
    << <<{"tf", "n_y"}, {"y_target"}>>, <<{"tf", "y_target", "y"}, {"loss"}>> >>
Stmts_sess_run_loss ==
    << <<{"sess", "loss", "x", "x_np", "y_target", "y_target_np"}, {"loss_val"}>> >>
Stmts_with_exit == << <<{}, {}>> >>
Stmts_print_losses == << <<{"loss_np"}, {}>>, <<{"loss_val"}, {}>> >>
Stmts_train_def ==
    << <<{"tf"}, {"opt"}>>, <<{"opt", "loss"}, {"train_op"}>>,
       <<{}, {"steps"}>>, <<{}, {"losses"}>> >>
Stmts_train_iter ==
    << <<{}, {"step"}>>,
       <<{"sess", "train_op", "loss", "x", "x_np", "y_target", "y_target_np"}, {"_", "loss_val"}>>,
       <<{"step"}, {}>>,
       <<{"step", "loss_val"}, {}>>,
       <<{"steps", "step"}, {}>>,
       <<{"losses", "loss_val"}, {}>> >>
Stmts_plot_losses == << <<{"plt"}, {}>>, <<{"plt", "steps", "losses"}, {}>> >>

Stmts_load_mnist ==
    << <<{}, {"mnist"}>>,
       <<{"mnist"}, {"x_train", "y_train", "x_test", "y_test"}>>,
       <<{"x_train", "x_test"}, {"x_train", "x_test"}>>,
       <<{"x_train"}, {}>>,
       <<{}, {"i"}>>,
       <<{"plt"}, {}>>,
       <<{"plt", "x_train", "i"}, {}>>,
       <<{"plt"}, {}>> >>
Stmts_mnist_mlp ==
    << <<{}, {"Dense", "Flatten", "Conv2D", "Dropout"}>>,
       <<{"Sequential"}, {"model"}>>,
       <<{"model", "Flatten"}, {}>>,
       <<{"model", "Dense"}, {}>>,
       <<{"model", "Dense"}, {}>>,
       <<{"model"}, {}>>,
       <<{"model"}, {}>>,
       <<{"model", "x_train", "y_train"}, {}>>,
       <<{"model", "x_test", "y_test"}, {"score"}>>,
       <<{"score"}, {}>>,
       <<{"score"}, {}>> >>
\* the cell without its `from keras import backend as K`
Stmts_code_help_layer_noK ==
    << <<{}, {"layer_nb"}>>,
       <<{"model"}, {"inp"}>>,
       <<{"model", "layer_nb"}, {"out"}>>,
       <<{"K", "inp", "out"}, {"func"}>>,
       <<{"func", "np"}, {"output"}>>,
       <<{"output"}, {}>> >>
Stmts_code_help_layer ==
    << <<{}, {"K"}>>,
       <<{}, {"layer_nb"}>>,
       <<{"model"}, {"inp"}>>,
       <<{"model", "layer_nb"}, {"out"}>>,
       <<{"K", "inp", "out"}, {"func"}>>,
       <<{"func", "np"}, {"output"}>>,
       <<{"output"}, {}>> >>
Stmts_code_help_svd ==
    << <<{"np", "output"}, {"U", "S", "V"}>>,
       <<{"U"}, {}>>, <<{"S"}, {}>>, <<{"V"}, {}>>,
       <<{"plt"}, {}>>,
       <<{}, {"i"}>>,
       <<{"y_test", "i"}, {"targets"}>>,
       <<{"plt", "U", "targets"}, {}>>,
       <<{}, {"TSNE"}>>,
       <<{"TSNE"}, {"tsne"}>>,
       <<{"tsne", "output"}, {"R"}>>,
       <<{"R"}, {}>>,
       <<{"plt"}, {}>>,
       <<{}, {"i"}>>,
       <<{"y_test", "i"}, {"targets"}>>,
       <<{"plt", "R", "targets"}, {}>> >>
Stmts_get_weights ==
    << <<{"model", "layer_nb"}, {"W", "b"}>>, <<{"W", "b"}, {}>> >>
Stmts_layer_shape == << <<{"model"}, {}>> >>

Stmts_conv_net ==
    << <<{}, {"Dense", "Flatten", "Conv2D", "Dropout", "MaxPooling2D"}>>,
       <<{"Sequential"}, {"model"}>>,
       <<{"model", "Conv2D"}, {}>>,
       <<{"model", "Conv2D"}, {}>>,
       <<{"model", "MaxPooling2D"}, {}>>,
       <<{"model", "Dropout"}, {}>>,
       <<{"model", "Flatten"}, {}>>,
       <<{"model", "Dense"}, {}>>,
       <<{"model", "Dropout"}, {}>>,
       <<{"model", "Dense"}, {}>>,
       <<{"model"}, {}>>,
       <<{"model"}, {}>>,
       <<{"model", "x_train", "np", "y_train"}, {}>>,
       <<{"model", "x_test", "np", "y_test"}, {}>> >>
Stmts_rnn_cell ==
    << <<{}, {"Dense", "Flatten", "Conv2D", "Dropout", "MaxPooling2D", "GRU"}>>,
       <<{}, {"Input"}>>,
       <<{"x_train"}, {"x_train_rnn"}>>,
       <<{"x_train", "x_test"}, {"x_test_rnn"}>>,
       <<{"Input", "x_train_rnn"}, {"x"}>>,
       <<{"GRU"}, {"layer"}>>,
       <<{"layer", "x"}, {"y"}>>,
       <<{"x"}, {}>>,
       <<{"keras", "x", "y"}, {"model"}>>,
       <<{"model"}, {}>>,
       <<{"model"}, {}>>,
       <<{"model", "x_train_rnn", "y_train"}, {}>>,
       <<{"model", "x_test_rnn", "y_test"}, {}>> >>
Stmts_grad_cell ==
    << <<{"model"}, {"loss"}>>,
       <<{"model"}, {"input_img"}>>,
       <<{"K", "loss", "input_img"}, {"grads"}>>,
       <<{"K", "input_img", "loss", "grads"}, {"iterate"}>>,
       <<{"np"}, {"input_img_data"}>>,
       <<{"iterate", "input_img_data"}, {"loss_value", "grads_value"}>>,
       <<{"plt"}, {}>>,
       <<{"plt", "grads_value"}, {}>> >>

RECURSIVE NameError(_, _)
\* some statement of stmts reads a name that is unbound when it runs
NameError(stmts, b) ==
    IF stmts = <<>> THEN FALSE
    ELSE IF ~(Head(stmts)[1] \subseteq b) THEN TRUE
    ELSE NameError(Tail(stmts), b \cup Head(stmts)[2])
\* the names bound once the first k statements have run
BoundAfter(stmts, k, b) == b \cup UNION {stmts[i][2] : i \in 1..k}
AllBound(stmts, b) == BoundAfter(stmts, Len(stmts), b)

\* ------------------------------------------------------------------- state
VARIABLES
    pc, error, bound,
    batch_size, n_x, n_h, n_y, x_np, W_h_np, W_y_np, h_np, y_np, y_target_np, loss_np,
    graph, sessions, sess, y_val, loss_val,
    steps, losses, step, it,
    model, layer_nb, output,
    x_train, y_train, x_test, y_test, x_train_rnn, x_test_rnn

npVars == <<batch_size, n_x, n_h, n_y, x_np, W_h_np, W_y_np, h_np, y_np, y_target_np, loss_np>>
tfVars == <<graph, sessions, sess, y_val, loss_val>>
loopVars == <<steps, losses, step, it>>
kerasVars == <<model, layer_nb, output>>
dataVars == <<x_train, y_train, x_test, y_test, x_train_rnn, x_test_rnn>>
vars == <<pc, error, bound, npVars, tfVars, loopVars, kerasVars, dataVars>>

\* the default graph after tf.reset_default_graph()
NoGraph ==
    [x_shape |-> <<>>, W_h_shape |-> <<>>, W_y_shape |-> <<>>,
     W_h_init |-> <<>>, W_y_init |-> <<>>, h_shape |-> <<>>, y_shape |-> <<>>,
     y_target_shape |-> <<>>, loss_shape |-> <<>>, has_loss |-> FALSE, has_train_op |-> FALSE]
NoArray == [base |-> "", seed |-> 0, dtype |-> "", shape |-> <<>>]

Init ==
    /\ pc = "imports" /\ error = "" /\ bound = {}
    /\ batch_size = 0 /\ n_x = 0 /\ n_h = 0 /\ n_y = 0
    /\ x_np = <<>> /\ W_h_np = <<>> /\ W_y_np = <<>> /\ h_np = <<>> /\ y_np = <<>>
    /\ y_target_np = <<>> /\ loss_np = 0
    /\ graph = NoGraph /\ sessions = <<>> /\ sess = 0 /\ y_val = <<>> /\ loss_val = 0
    /\ steps = <<>> /\ losses = <<>> /\ step = 0 /\ it = 0
    /\ model = NoModel /\ layer_nb = 0 /\ output = <<>>
    /\ x_train = NoArray /\ y_train = NoArray /\ x_test = NoArray /\ y_test = NoArray
    /\ x_train_rnn = NoArray /\ x_test_rnn = NoArray

\* the cell raises e after its first k statements: the run stops there
Raise(e, stmts, k) ==
    /\ pc' = "halted" /\ error' = e /\ bound' = BoundAfter(stmts, k, bound)
    /\ UNCHANGED <<npVars, tfVars, loopVars, kerasVars, dataVars>>
\* the cell ends without an exception and the run goes on at `next`
Goto(next, stmts) ==
    /\ pc' = next /\ error' = "" /\ bound' = AllBound(stmts, bound)

\* ------------------------------------------------------------------- cells
\* import numpy as np; import tensorflow as tf; import matplotlib.pyplot as plt
imports ==
    /\ pc = "imports"
    /\ Goto("numpy_way", Stmts_imports)
    /\ UNCHANGED <<npVars, tfVars, loopVars, kerasVars, dataVars>>

\* "# Numpy way": the hyperparameters, the random batch and weights, the
\* forward pass and the loss
numpy_way ==
    /\ pc = "numpy_way"
    /\ \E hp \in HyperParams, seed \in Seeds :
        LET x_ == np_random_rand(seed, 1, hp[1], hp[2])
            Wh_ == np_weights(seed, 2, hp[2], hp[3])
            Wy_ == np_weights(seed, 3, hp[3], hp[4])
            yt_ == np_random_rand(seed, 4, hp[1], hp[4])
        IN  IF NameError(Stmts_numpy_way, bound) THEN Raise("NameError", Stmts_numpy_way, 0)
            ELSE IF Shape(x_)[2] # Shape(Wh_)[1] THEN Raise("ValueError", Stmts_numpy_way, 8)
            ELSE IF Shape(Wh_)[2] # Shape(Wy_)[1] THEN Raise("ValueError", Stmts_numpy_way, 9)
            ELSE LET hv == relu(np_dot(x_, Wh_))
                     yv == np_dot(hv, Wy_)
                 IN IF ~Broadcastable(Shape(yt_), Shape(yv)) THEN Raise("ValueError", Stmts_numpy_way, 11)
                    ELSE /\ batch_size' = hp[1] /\ n_x' = hp[2] /\ n_h' = hp[3] /\ n_y' = hp[4]
                         /\ x_np' = x_ /\ W_h_np' = Wh_ /\ W_y_np' = Wy_
                         /\ h_np' = hv /\ y_np' = yv /\ y_target_np' = yt_
                         /\ loss_np' = np_mean(Square(Sub(yt_, yv)))
                         /\ Goto("tf1_build", Stmts_numpy_way)
                         /\ UNCHANGED <<tfVars, loopVars, kerasVars, dataVars>>

\* ------------------------------------------------------ TensorFlow cells
NewSession == [open |-> TRUE, init |-> FALSE, W_h |-> <<>>, W_y |-> <<>>]
\* the exception sess.run raises before it evaluates anything, "" when none
RunError(s, feeds_ok) ==
    IF ~s.open THEN "RuntimeError"
    ELSE IF ~feeds_ok THEN "ValueError"
    ELSE IF ~s.init THEN "FailedPreconditionError"
    ELSE ""

\* tf.reset_default_graph(); the placeholder x, the variables W_h and W_y with
\* their constant initializers, h = relu(x.W_h), y = h.W_y; print(y)
TFBuild(l, next, stmts) ==
    /\ pc = l
    /\ LET xs == <<batch_size, n_x>>
           whs == <<n_x, n_h>>
           wys == <<n_h, n_y>>
           hs == MatMulShape(xs, whs)
           ys == IF hs = <<>> THEN <<>> ELSE MatMulShape(hs, wys)
       IN IF NameError(stmts, bound) THEN Raise("NameError", stmts, 0)
          ELSE IF hs = <<>> \/ ys = <<>> THEN Raise("ValueError", stmts, Len(stmts) - 3)
          ELSE /\ graph' = [NoGraph EXCEPT !.x_shape = xs, !.W_h_shape = whs, !.W_y_shape = wys,
                                           !.W_h_init = W_h_np, !.W_y_init = W_y_np,
                                           !.h_shape = hs, !.y_shape = ys]
               /\ Goto(next, stmts)
               /\ UNCHANGED <<npVars, sessions, sess, y_val, loss_val, loopVars, kerasVars, dataVars>>

\* sess = tf.Session()   (also the entry of `with tf.Session() as sess:`)
SessOpen(l, next) ==
    /\ pc = l
    /\ IF NameError(Stmts_sess_open, bound) THEN Raise("NameError", Stmts_sess_open, 0)
       ELSE /\ sessions' = Append(sessions, NewSession)
            /\ sess' = Len(sessions) + 1
            /\ Goto(next, Stmts_sess_open)
            /\ UNCHANGED <<npVars, graph, y_val, loss_val, loopVars, kerasVars, dataVars>>

\* sess.run(tf.global_variables_initializer())
SessInit(l, next) ==
    /\ pc = l
    /\ IF NameError(Stmts_sess_init, bound) THEN Raise("NameError", Stmts_sess_init, 0)
       ELSE IF ~sessions[sess].open THEN Raise("RuntimeError", Stmts_sess_init, 0)
       ELSE IF Shape(graph.W_h_init) # graph.W_h_shape \/ Shape(graph.W_y_init) # graph.W_y_shape
            THEN Raise("ValueError", Stmts_sess_init, 0)
       ELSE /\ sessions' = [sessions EXCEPT ![sess] =
                               [@ EXCEPT !.init = TRUE, !.W_h = graph.W_h_init, !.W_y = graph.W_y_init]]
            /\ Goto(next, Stmts_sess_init)
            /\ UNCHANGED <<npVars, graph, sess, y_val, loss_val, loopVars, kerasVars, dataVars>>

\* y_val = sess.run(y, feed_dict={x: x_np})
SessRunY(l, next) ==
    /\ pc = l
    /\ IF NameError(Stmts_sess_run_y, bound) THEN Raise("NameError", Stmts_sess_run_y, 0)
       ELSE LET e == RunError(sessions[sess], Compatible(graph.x_shape, Shape(x_np)))
            IN IF e # "" THEN Raise(e, Stmts_sess_run_y, 0)
               ELSE /\ y_val' = TF_y(sessions[sess], x_np)
                    /\ Goto(next, Stmts_sess_run_y)
                    /\ UNCHANGED <<npVars, graph, sessions, sess, loss_val, loopVars, kerasVars, dataVars>>

\* a close that leaves the session open
SessClose_leak(l, next, stmts) ==
    /\ pc = l
    /\ Goto(next, stmts)
    /\ UNCHANGED <<npVars, tfVars, loopVars, kerasVars, dataVars>>

\* sess.close()   (also the exit of a with block)
SessClose(l, next, stmts) ==
    /\ pc = l
    /\ IF NameError(stmts, bound) THEN Raise("NameError", stmts, 0)
       ELSE /\ sessions' = [sessions EXCEPT ![sess] = [@ EXCEPT !.open = FALSE]]
            /\ Goto(next, stmts)
            /\ UNCHANGED <<npVars, graph, sess, y_val, loss_val, loopVars, kerasVars, dataVars>>

\* print(y_val); plt.scatter(y_val, y_np)
TFPlot(l, next) ==
    /\ pc = l
    /\ IF NameError(Stmts_tf_plot, bound) THEN Raise("NameError", Stmts_tf_plot, 0)
       ELSE IF Size(y_val) # Size(y_np) THEN Raise("ValueError", Stmts_tf_plot, 1)
       ELSE /\ Goto(next, Stmts_tf_plot)
            /\ UNCHANGED <<npVars, tfVars, loopVars, kerasVars, dataVars>>

tf1_build == TFBuild("tf1_build", "tf1_open", Stmts_tf_build)
tf1_open == SessOpen("tf1_open", "tf1_init")
tf1_init == SessInit("tf1_init", "tf1_run")
tf1_run == SessRunY("tf1_run", "tf1_close")
tf1_close == SessClose("tf1_close", "tf1_plot", Stmts_sess_close)
tf1_plot == TFPlot("tf1_plot", "keras_way")

\* ------------------------------------------------------------ Keras cells
\* "# Keras way": the bias-free MLP with the NumPy weights
keras_way ==
    /\ pc = "keras_way"
    /\ LET m1 == Dense(WithInput(Sequential, <<n_x>>), n_h, "relu", FALSE)
           m2 == Dense(m1, n_y, "linear", FALSE)
       IN IF NameError(Stmts_keras_way, bound) THEN Raise("NameError", Stmts_keras_way, 0)
          ELSE IF KernelShape(m2, 1) # Shape(W_h_np) THEN Raise("ValueError", Stmts_keras_way, 7)
          ELSE IF KernelShape(m2, 2) # Shape(W_y_np) THEN Raise("ValueError", Stmts_keras_way, 8)
          ELSE /\ model' = SetWeights(SetWeights(m2, 1, W_h_np), 2, W_y_np)
               /\ Goto("load_mnist", Stmts_keras_way)
               /\ UNCHANGED <<npVars, tfVars, loopVars, layer_nb, output, dataVars>>

\* "#Load MNIST dataset": load, scale to [0, 1], show the first three images
load_mnist ==
    /\ pc = "load_mnist"
    /\ \E seed \in Seeds :
        IF NameError(Stmts_load_mnist, bound) THEN Raise("NameError", Stmts_load_mnist, 0)
        ELSE IF TrainN < 3 THEN Raise("IndexError", Stmts_load_mnist, 6)
        ELSE /\ x_train' = Div255(Array("x_train", seed, "uint8", <<TrainN, Img, Img>>))
             /\ y_train' = Array("y_train", seed, "uint8", <<TrainN>>)
             /\ x_test' = Div255(Array("x_test", seed, "uint8", <<TestN, Img, Img>>))
             /\ y_test' = Array("y_test", seed, "uint8", <<TestN>>)
             /\ Goto("mnist_mlp", Stmts_load_mnist)
             /\ UNCHANGED <<npVars, tfVars, loopVars, kerasVars, x_train_rnn, x_test_rnn>>

\* "#Create network and train on MNIST"
mnist_mlp ==
    /\ pc = "mnist_mlp"
    /\ LET m == Dense(Dense(Flatten(WithInput(Sequential, <<28, 28>>)), 500, "relu", TRUE),
                      10, "softmax", TRUE)
       IN IF NameError(Stmts_mnist_mlp, bound) THEN Raise("NameError", Stmts_mnist_mlp, 0)
          ELSE IF FitError(m, x_train.shape, y_train.shape) # ""
               THEN Raise(FitError(m, x_train.shape, y_train.shape), Stmts_mnist_mlp, 7)
          ELSE IF FitError(m, x_test.shape, y_test.shape) # ""
               THEN Raise(FitError(m, x_test.shape, y_test.shape), Stmts_mnist_mlp, 8)
          ELSE /\ model' = [m EXCEPT !.epochs = 5]
               /\ Goto("code_help_layer", Stmts_mnist_mlp)
               /\ UNCHANGED <<npVars, tfVars, loopVars, layer_nb, output, dataVars>>

\* "# CODE HELP": the output of layer layer_nb for 600 random images
code_help_layer ==
    /\ pc = "code_help_layer"
    /\ IF NameError(Stmts_code_help_layer, bound) THEN Raise("NameError", Stmts_code_help_layer, 0)
       ELSE IF 1 + 1 > Len(model.layers) THEN Raise("IndexError", Stmts_code_help_layer, 3)
       ELSE IF ~Accepts(model, <<600, 28, 28>>) THEN Raise("ValueError", Stmts_code_help_layer, 5)
       ELSE /\ layer_nb' = 1
            /\ output' = <<600>> \o Tail(model.layers[1 + 1].out_shape)
            /\ Goto("code_help_svd", Stmts_code_help_layer)
            /\ UNCHANGED <<npVars, tfVars, loopVars, model, dataVars>>

\* "# CODE HELP": SVD and t-SNE of `output`, scatterplots coloured by y_test[0:600]
code_help_svd ==
    /\ pc = "code_help_svd"
    /\ LET mask == IF y_test.shape[1] < 600 THEN y_test.shape[1] ELSE 600
       IN IF NameError(Stmts_code_help_svd, bound) THEN Raise("NameError", Stmts_code_help_svd, 0)
          ELSE IF Len(output) < 2 THEN Raise("LinAlgError", Stmts_code_help_svd, 0)
          ELSE IF mask # output[1] THEN Raise("IndexError", Stmts_code_help_svd, 7)
          ELSE IF Len(output) # 2 THEN Raise("ValueError", Stmts_code_help_svd, 10)
          ELSE /\ Goto("get_weights", Stmts_code_help_svd)
               /\ UNCHANGED <<npVars, tfVars, loopVars, kerasVars, dataVars>>

\* W,b = model.layers[layer_nb].get_weights()
get_weights ==
    /\ pc = "get_weights"
    /\ IF NameError(Stmts_get_weights, bound) THEN Raise("NameError", Stmts_get_weights, 0)
       ELSE IF layer_nb + 1 > Len(model.layers) THEN Raise("IndexError", Stmts_get_weights, 0)
       ELSE IF NumWeights(model.layers[layer_nb + 1]) # 2 THEN Raise("ValueError", Stmts_get_weights, 0)
       ELSE /\ Goto("layer_shape", Stmts_get_weights)
            /\ UNCHANGED <<npVars, tfVars, loopVars, kerasVars, dataVars>>

\* model.layers[1].output.shape
layer_shape ==
    /\ pc = "layer_shape"
    /\ IF NameError(Stmts_layer_shape, bound) THEN Raise("NameError", Stmts_layer_shape, 0)
       ELSE IF 1 + 1 > Len(model.layers) THEN Raise("IndexError", Stmts_layer_shape, 0)
       ELSE /\ Goto("tf2_build", Stmts_layer_shape)
            /\ UNCHANGED <<npVars, tfVars, loopVars, kerasVars, dataVars>>

\* ------------------------------------- "Training the network with Tensorflow"
tf2_build == TFBuild("tf2_build", "tf2_open", Stmts_tf_build2)
tf2_open == SessOpen("tf2_open", "tf2_init")
tf2_init == SessInit("tf2_init", "tf2_run")
tf2_run == SessRunY("tf2_run", "tf2_close")
tf2_close == SessClose("tf2_close", "tf2_plot", Stmts_sess_close)
tf2_plot == TFPlot("tf2_plot", "loss_def")

\* y_target = tf.placeholder(tf.float32, (None, n_y)); loss = reduce_mean((y_target - y)**2)
loss_def ==
    /\ pc = "loss_def"
    /\ LET yts == <<NoneDim, n_y>>
       IN IF NameError(Stmts_loss_def, bound) THEN Raise("NameError", Stmts_loss_def, 0)
          ELSE IF ~(yts[2] = graph.y_shape[2] \/ yts[2] = 1 \/ graph.y_shape[2] = 1)
               THEN Raise("ValueError", Stmts_loss_def, 1)
          ELSE /\ graph' = [graph EXCEPT !.y_target_shape = yts, !.has_loss = TRUE]
               /\ Goto("with1_enter", Stmts_loss_def)
               /\ UNCHANGED <<npVars, sessions, sess, y_val, loss_val, loopVars, kerasVars, dataVars>>

\* an exception inside a with block closes the session on its way out
RaiseInWith(e, stmts, k) ==
    /\ pc' = "halted" /\ error' = e /\ bound' = BoundAfter(stmts, k, bound)
    /\ sessions' = [sessions EXCEPT ![sess] = [@ EXCEPT !.open = FALSE]]
    /\ UNCHANGED <<npVars, graph, sess, y_val, loss_val, loopVars, kerasVars, dataVars>>
\* what sess.run raises when it is fed x_np and y_target_np
LossRunError ==
    LET e == RunError(sessions[sess], Compatible(graph.x_shape, Shape(x_np))
                                        /\ Compatible(graph.y_target_shape, Shape(y_target_np)))
    IN IF e # "" THEN e
       ELSE IF ~graph.has_loss THEN "TypeError"
       ELSE IF ~Broadcastable(Shape(y_target_np), graph.y_shape) THEN "InvalidArgumentError"
       ELSE ""

with1_enter == SessOpen("with1_enter", "with1_init")
with1_init == SessInit("with1_init", "with1_run")
\* loss_val = sess.run(loss, feed_dict={x: x_np, y_target: y_target_np})
with1_run ==
    /\ pc = "with1_run"
    /\ IF NameError(Stmts_sess_run_loss, bound) THEN RaiseInWith("NameError", Stmts_sess_run_loss, 0)
       ELSE IF LossRunError # "" THEN RaiseInWith(LossRunError, Stmts_sess_run_loss, 0)
       ELSE /\ loss_val' = TF_loss(sessions[sess], x_np, y_target_np)
            /\ Goto("with1_exit", Stmts_sess_run_loss)
            /\ UNCHANGED <<npVars, graph, sessions, sess, y_val, loopVars, kerasVars, dataVars>>
with1_exit == SessClose("with1_exit", "print_losses", Stmts_with_exit)

\* print(loss_np); print(loss_val)
print_losses ==
    /\ pc = "print_losses"
    /\ IF NameError(Stmts_print_losses, bound) THEN Raise("NameError", Stmts_print_losses, 0)
       ELSE /\ Goto("train_def", Stmts_print_losses)
            /\ UNCHANGED <<npVars, tfVars, loopVars, kerasVars, dataVars>>

\* opt = GradientDescentOptimizer(0.01); train_op = opt.minimize(loss);
\* steps = list(); losses = list()
train_def ==
    /\ pc = "train_def"
    /\ IF NameError(Stmts_train_def, bound) THEN Raise("NameError", Stmts_train_def, 0)
       ELSE /\ graph' = [graph EXCEPT !.has_train_op = TRUE]
            /\ steps' = <<>> /\ losses' = <<>>
            /\ Goto("with2_enter", Stmts_train_def)
            /\ UNCHANGED <<npVars, sessions, sess, y_val, loss_val, step, it, kerasVars, dataVars>>

with2_enter == SessOpen("with2_enter", "with2_init")
with2_init == SessInit("with2_init", "train_loop")

\* one iteration of `for step in range(10):`: run train_op and loss on the
\* batch, then record the step and the loss when step % 1 == 0
train_iter ==
    /\ pc = "train_loop"
    /\ it < NumTrainSteps
    /\ IF NameError(Stmts_train_iter, bound) THEN RaiseInWith("NameError", Stmts_train_iter, 1)
       ELSE IF LossRunError # "" THEN RaiseInWith(LossRunError, Stmts_train_iter, 1)
       ELSE IF ~graph.has_train_op THEN RaiseInWith("TypeError", Stmts_train_iter, 1)
       ELSE LET lv == TF_loss(sessions[sess], x_np, y_target_np)
            IN /\ step' = it
               /\ it' = it + 1
               /\ loss_val' = lv
               /\ sessions' = [sessions EXCEPT ![sess] = TF_train(@, x_np, y_target_np)]
               /\ steps' = IF it % LogEvery = 0 THEN Append(steps, it) ELSE steps
               /\ losses' = IF it % LogEvery = 0 THEN Append(losses, lv) ELSE losses
               /\ Goto("train_loop", Stmts_train_iter)
               /\ UNCHANGED <<npVars, graph, sess, y_val, kerasVars, dataVars>>

\* range(10) is exhausted: the with block ends and closes the session
train_exit ==
    /\ pc = "train_loop"
    /\ it >= NumTrainSteps
    /\ sessions' = [sessions EXCEPT ![sess] = [@ EXCEPT !.open = FALSE]]
    /\ Goto("plot_losses", Stmts_with_exit)
    /\ UNCHANGED <<npVars, graph, sess, y_val, loss_val, loopVars, kerasVars, dataVars>>

\* plt.figure(); plt.plot(steps, losses)
plot_losses ==
    /\ pc = "plot_losses"
    /\ IF NameError(Stmts_plot_losses, bound) THEN Raise("NameError", Stmts_plot_losses, 0)
       ELSE IF Len(steps) # Len(losses) THEN Raise("ValueError", Stmts_plot_losses, 1)
       ELSE /\ Goto("conv_net", Stmts_plot_losses)
            /\ UNCHANGED <<npVars, tfVars, loopVars, kerasVars, dataVars>>

\* ------------------------------------------- convolutional and recurrent net
conv_net ==
    /\ pc = "conv_net"
    /\ LET c == MaxPooling2D(Conv2D(Conv2D(WithInput(Sequential, <<28, 28, 1>>), 32), 64))
           m == Dense(Dropout(Dense(Flatten(Dropout(c)), 128, "relu", TRUE)), 10, "softmax", TRUE)
       IN IF NameError(Stmts_conv_net, bound) THEN Raise("NameError", Stmts_conv_net, 0)
          ELSE IF FitError(m, NewAxis(x_train.shape), y_train.shape) # ""
               THEN Raise("ValueError", Stmts_conv_net, 12)
          ELSE IF FitError(m, NewAxis(x_test.shape), y_test.shape) # ""
               THEN Raise("ValueError", Stmts_conv_net, 13)
          ELSE /\ model' = [m EXCEPT !.epochs = 5]
               /\ Goto("rnn_cell", Stmts_conv_net)
               /\ UNCHANGED <<npVars, tfVars, loopVars, layer_nb, output, dataVars>>

\* x_train_rnn = x_train.reshape((x_train.shape[0], -1, 1))
reshape_train(xtrain, xtest) == Reshape(xtrain, <<xtrain.shape[1], -1, 1>>)
\* x_test_rnn = x_train.reshape((x_test.shape[0], -1, 1))
reshape_test(xtrain, xtest) == Reshape(xtrain, <<xtest.shape[1], -1, 1>>)

\* "Recurrent network": the pixel sequences, a GRU(20) model, fit and evaluate
rnn_cell ==
    /\ pc = "rnn_cell"
    /\ IF NameError(Stmts_rnn_cell, bound) THEN Raise("NameError", Stmts_rnn_cell, 0)
       ELSE IF ~Reshapable(x_train, <<x_train.shape[1], -1, 1>>) THEN Raise("ValueError", Stmts_rnn_cell, 2)
       ELSE IF ~Reshapable(x_train, <<x_test.shape[1], -1, 1>>) THEN Raise("ValueError", Stmts_rnn_cell, 3)
       ELSE LET xtr == reshape_train(x_train, x_test)
                xte == reshape_test(x_train, x_test)
                m == GRUModel(<<NoneDim, xtr.shape[3]>>, 20)
            IN IF FitError(m, xtr.shape, y_train.shape) # "" THEN Raise("ValueError", Stmts_rnn_cell, 11)
               ELSE IF FitError(m, xte.shape, y_test.shape) # "" THEN Raise("ValueError", Stmts_rnn_cell, 12)
               ELSE /\ x_train_rnn' = xtr
                    /\ x_test_rnn' = xte
                    /\ model' = [m EXCEPT !.epochs = 5]
                    /\ Goto("grad_cell", Stmts_rnn_cell)
                    /\ UNCHANGED <<npVars, tfVars, loopVars, layer_nb, output,
                                   x_train, y_train, x_test, y_test>>

\* the model has a layer at Python index k whose output has a column c
HasUnit(m, k, c) ==
    /\ k + 1 <= Len(m.layers)
    /\ Len(m.layers[k + 1].out_shape) >= 2
    /\ (m.layers[k + 1].out_shape[2] = NoneDim \/ m.layers[k + 1].out_shape[2] > c)

\* the gradient of model.layers[2].output[:,4] with respect to the input, at
\* the all-zero image np.zeros((1,28,28))
grad_cell ==
    /\ pc = "grad_cell"
    /\ IF NameError(SubSeq(Stmts_grad_cell, 1, 1), bound) THEN Raise("NameError", Stmts_grad_cell, 0)
       ELSE IF 2 + 1 > Len(model.layers) THEN Raise("IndexError", Stmts_grad_cell, 0)
       ELSE IF ~HasUnit(model, 2, 4) THEN Raise("ValueError", Stmts_grad_cell, 0)
       ELSE IF NameError(Stmts_grad_cell, bound) THEN Raise("NameError", Stmts_grad_cell, 1)
       ELSE IF ~Accepts(model, <<1, 28, 28>>) THEN Raise("ValueError", Stmts_grad_cell, 5)
       ELSE /\ Goto("done", Stmts_grad_cell)
            /\ UNCHANGED <<npVars, tfVars, loopVars, kerasVars, dataVars>>

Next ==
    \/ imports \/ numpy_way
    \/ tf1_build \/ tf1_open \/ tf1_init \/ tf1_run \/ tf1_close \/ tf1_plot
    \/ keras_way \/ load_mnist \/ mnist_mlp \/ code_help_layer \/ code_help_svd
    \/ get_weights \/ layer_shape
    \/ tf2_build \/ tf2_open \/ tf2_init \/ tf2_run \/ tf2_close \/ tf2_plot
    \/ loss_def \/ with1_enter \/ with1_init \/ with1_run \/ with1_exit \/ print_losses
    \/ train_def \/ with2_enter \/ with2_init \/ train_iter \/ train_exit \/ plot_losses
    \/ conv_net \/ rnn_cell \/ grad_cell
Spec == Init /\ [][Next]_vars

\* ------------------------------------------------------------------ claims
\* the pre-activations x_np.W_h_np the notebook applies relu to
PreAct == np_dot(x_np, W_h_np)
\* the NumPy network of the "Numpy way" cell, as a function of its input
NumpyNet(X) == np_dot(relu(np_dot(X, W_h_np)), W_y_np)
\* the variables of a session right after global_variables_initializer
InitVars == [NewSession EXCEPT !.init = TRUE, !.W_h = graph.W_h_init, !.W_y = graph.W_y_init]
\* the bias-free two-layer model the "Keras way" cell builds
IsKerasMLP ==
    /\ model.cls = "Sequential" /\ Len(model.layers) = 2
    /\ \A k \in 1..2 : model.layers[k].kind = "Dense" /\ ~model.layers[k].use_bias
\* input batches of width n_x: gaussian draws of 1..MaxDim rows (as Q0 asks
\* for) and of batch_size rows (what the placeholder x accepts)
TestInputs(rows) == {np_random_randn(sd, 5, r, n_x) : sd \in Seeds, r \in rows}

\* C1: the NumPy network, the TensorFlow graph initialised from W_h_np and
\* W_y_np, and the Keras model with those weights set return equal outputs,
\* on the batch x_np and on every other input batch of width n_x.
Thm_C1 ==
    /\ "y_val" \in bound => y_val = y_np
    /\ (graph.y_shape # <<>> /\ "y_np" \in bound) =>
          \A X \in TestInputs({batch_size}) \cup {x_np} : TF_y(InitVars, X) = NumpyNet(X)
    /\ (IsKerasMLP /\ "y_np" \in bound) =>
          \A X \in TestInputs(1..MaxDim \cup {batch_size}) \cup {x_np} :
              Predict(model.layers, X) = NumpyNet(X)
\* all three networks are built and some hidden unit is off and some output is not zero
Wit_C1 ==
    /\ IsKerasMLP /\ "y_val" \in bound
    /\ LET pre == PreAct IN \E i \in 1..batch_size, j \in 1..n_h : pre[i][j] < 0
    /\ \E i \in 1..batch_size, j \in 1..n_y : y_np[i][j] # 0
    /\ Predict(model.layers, x_np) = y_val

\* C2: the shapes agree along the forward pass: x (batch_size, n_x), W_h
\* (n_x, n_h), h (batch_size, n_h), W_y (n_h, n_y), and y_val is
\* (batch_size, n_y) like y_np and y_target_np, so the loss never broadcasts
\* and no cell of the forward pass raises a shape error.
Thm_C2 ==
    /\ error \notin {"ValueError", "InvalidArgumentError"}
    /\ "loss_np" \in bound =>
          /\ batch_size > 0 /\ n_x > 0 /\ n_h > 0 /\ n_y > 0
          /\ Shape(x_np) = <<batch_size, n_x>>
          /\ Shape(W_h_np) = <<n_x, n_h>>
          /\ Shape(h_np) = <<batch_size, n_h>>
          /\ Shape(W_y_np) = <<n_h, n_y>>
          /\ Shape(y_np) = <<batch_size, n_y>>
          /\ Shape(y_target_np) = Shape(y_np)
    /\ "y" \in bound /\ pc \notin {"grad_cell", "halted", "done"} =>
          /\ graph.h_shape = <<batch_size, n_h>>
          /\ graph.y_shape = <<batch_size, n_y>>
    /\ "y_val" \in bound =>
          /\ Shape(y_val) = <<batch_size, n_y>>
          /\ Shape(y_val) = Shape(y_np)
          /\ Shape(y_val) = Shape(y_target_np)
\* the tutorial's hyperparameters, after the loss has been evaluated
Wit_C2 ==
    /\ <<batch_size, n_x, n_h, n_y>> = <<Tut_batch_size, Tut_n_x, Tut_n_h, Tut_n_y>>
    /\ pc = "print_losses"
    /\ Shape(y_val) = <<Tut_batch_size, Tut_n_y>>

OpenSessions == {i \in 1..Len(sessions) : sessions[i].open}
\* C3: at most one session the notebook opened is open at any time, no
\* sess.run is issued on a closed session, and none is open after the last cell.
Thm_C3 ==
    /\ Cardinality(OpenSessions) <= 1
    /\ error # "RuntimeError"
    /\ pc \in {"tf1_init", "tf1_run", "tf1_close", "tf2_init", "tf2_run", "tf2_close",
               "with1_init", "with1_run", "with1_exit", "with2_init", "train_loop"}
          => OpenSessions = {sess}
    /\ pc \in {"done", "halted"} => OpenSessions = {}
\* the run is over, the four sessions were opened and all are closed
Wit_C3 == pc = "halted" /\ Len(sessions) = 4 /\ OpenSessions = {}

\* the names the claim lists
ListedNames ==
    {"np", "tf", "plt", "keras", "Sequential", "K", "batch_size", "n_x", "n_h", "n_y",
     "x_np", "y_np", "W_h_np", "W_y_np", "y_target_np", "loss_np", "x_train", "y_train",
     "x_test", "y_test", "model", "layer_nb", "output"}
\* C4: in a top-to-bottom run no cell reads a global name that is unbound.
Thm_C4 ==
    /\ error # "NameError"
    /\ pc = "grad_cell" => ListedNames \subseteq bound
\* the last cell has been reached with every listed name bound
Wit_C4 == pc = "halted" /\ error = "IndexError" /\ ListedNames \subseteq bound /\ "x_test_rnn" \in bound

\* C5: when the last cell runs, `model` has a layer at index 2 with at least
\* 5 output units and accepts an input of shape (1, 28, 28).
Cex_C5 ==
    pc = "grad_cell" => /\ Len(model.layers) >= 2 + 1
                        /\ HasUnit(model, 2, 4)
                        /\ Accepts(model, <<1, 28, 28>>)

\* C6: x_test_rnn has one sequence of 28*28 steps of 1 feature per test
\* image, as long as those of x_train_rnn, and sequence i holds the pixels of
\* x_test[i].
Cex_C6 ==
    "x_test_rnn" \in bound =>
        /\ x_test_rnn.shape = <<x_test.shape[1], Img * Img, 1>>
        /\ x_test_rnn.shape[2] = x_train_rnn.shape[2]
        /\ \A i \in 0..MaxSample, t \in 0..(Img * Img - 1) :
              Elem(x_test_rnn, <<i, t, 0>>) = Elem(x_test, <<i, t \div Img, t % Img>>)

\* C7: the loss the graph returns right after the variables are initialised
\* equals loss_np; a session holds the NumPy weights right after its
\* initializer ran, and the graph evaluated at the NumPy arrays keeps
\* returning loss_np whatever the sessions did since.
Thm_C7 ==
    /\ pc \in {"with1_exit", "print_losses", "train_def"} => loss_val = loss_np
    /\ graph.has_loss => TF_loss(InitVars, x_np, y_target_np) = loss_np
    /\ (pc \in {"tf1_run", "tf2_run", "with1_run"} \/ (pc = "train_loop" /\ it = 0)) =>
          /\ sessions[sess].W_h = W_h_np
          /\ sessions[sess].W_y = W_y_np
\* both losses are about to be printed, and they are not zero
Wit_C7 == pc = "print_losses" /\ loss_val = loss_np /\ loss_np > 0 /\ Size(y_np) > 1

RECURSIVE Trained(_)
\* the variables after k runs of train_op from the initial weights
Trained(k) == IF k = 0 THEN InitVars ELSE TF_train(Trained(k - 1), x_np, y_target_np)
\* C8: the loop runs 10 update steps in one open session, from the initial
\* weights and each from the weights the step before left, on the same batch;
\* after iteration k, len(steps) = len(losses) = k+1; at the end steps = [0..9].
Thm_C8 ==
    /\ pc = "train_loop" =>
          /\ it <= NumTrainSteps
          /\ Len(steps) = it /\ Len(losses) = it
          /\ steps = [k \in 1..it |-> k - 1]
          /\ sess = Len(sessions) /\ sessions[sess].open
          /\ it = 0 => sessions[sess] = InitVars
          /\ it > 0 => LET before == Trained(it - 1)
                       IN /\ sessions[sess] = TF_train(before, x_np, y_target_np)
                          /\ step = it - 1
                          /\ losses[it] = TF_loss(before, x_np, y_target_np)
                          /\ loss_val = losses[it]
    /\ pc \in {"plot_losses", "conv_net", "rnn_cell", "grad_cell", "halted", "done"} =>
          /\ it = NumTrainSteps
          /\ steps = [k \in 1..NumTrainSteps |-> k - 1]
          /\ Len(losses) = Len(steps)
\* the loop is over and the recorded loss went down on the way
Wit_C8 ==
    /\ pc = "plot_losses" /\ Len(steps) = NumTrainSteps
    /\ losses[NumTrainSteps] < losses[1]
    /\ sessions[sess].W_h # W_h_np

\* C9: relu returns v where v > 0 and 0 where v <= 0: it is never negative,
\* relu(0) = 0, and it agrees with max(v, 0), which tf.nn.relu computes.
Thm_C9 ==
    "h_np" \in bound =>
        LET pre == PreAct
        IN /\ h_np = tf_nn_relu(pre)
           /\ \A i \in 1..batch_size, j \in 1..n_h :
                 /\ h_np[i][j] >= 0
                 /\ h_np[i][j] = Max(pre[i][j], 0)
                 /\ pre[i][j] > 0 => h_np[i][j] = pre[i][j]
                 /\ pre[i][j] <= 0 => h_np[i][j] = 0
\* relu has been applied to a negative, a zero and a positive element
Wit_C9 ==
    /\ "h_np" \in bound
    /\ LET pre == PreAct
       IN /\ \E i \in 1..batch_size, j \in 1..n_h : pre[i][j] < 0 /\ h_np[i][j] = 0
          /\ \E i \in 1..batch_size, j \in 1..n_h : pre[i][j] = 0
          /\ \E i \in 1..batch_size, j \in 1..n_h : pre[i][j] > 0 /\ h_np[i][j] > 0
====
